---- MODULE Spec2Model ----
(***************************************************************************)
(* Model of SimpleKVStore (src/kv_store.py): an append-only binary log     *)
(* file, an in-memory index key -> (offset, value_length), the set / get   *)
(* operations, index rebuild by log replay, and process crash / restart.   *)
(*                                                                         *)
(* Representation.                                                         *)
(*   - a Python str is a sequence of Unicode code points (naturals);       *)
(*   - a bytes object is a sequence of naturals in 0..255;                 *)
(*   - Python's None is the sentinel None (it is no sequence of code       *)
(*     points), a failed UTF-8 decode is the sentinel Invalid;             *)
(*   - the log file is (exists, file): whether the path exists and the     *)
(*     bytes it holds;                                                     *)
(*   - the index dict is a function whose DOMAIN is the set of keys;       *)
(*     IndexEntry is a record [offset, value_length].                      *)
(***************************************************************************)
EXTENDS Integers, Sequences, FiniteSets, TLC

VARIABLES
    exists,   \* os.path.exists(self.data_file)
    file,     \* the bytes of the log file (<<>> when it does not exist)
    up,       \* TRUE while a process holding a SimpleKVStore is running
    index,    \* self.index of the running process (empty when none runs)
    last,     \* the last operation: its arguments, result and printed line
    pieces,   \* history: what each append attempt left in the file
    clean,    \* history: every byte in the file was written by a set that succeeded
    session,  \* history: the pieces written by successful sets since the
              \* index of the running process was last built
    scen,     \* history: the number of lines run() has read, as long as these
              \* are the first lines of the command scenario; -1 afterwards
    call      \* the call of set(), get() or _rebuild_index() in progress,
              \* statement by statement, or (pc = "idle") the call that
              \* ended last

vars == <<exists, file, up, index, last, pieces, clean, session, scen, call>>

(***************************************************************************)
(* Bounds of the model.                                                    *)
(***************************************************************************)
MaxAppends == 3       \* append attempts that left bytes in the file
MaxTorn == 1          \* of these, attempts that left an incomplete record
MaxBigAppends == 2    \* append attempts in the oversize-key specification
MaxLogRecs == 3       \* records of a log file handed to the replay
MaxStepAppends == 2   \* append attempts in the statement-level specification

(***************************************************************************)
(* Program constants.                                                      *)
(***************************************************************************)
MaxKeyLen == 65536
MaxValLen == 1048576

(***************************************************************************)
(* Sentinels and text literals.                                            *)
(***************************************************************************)
None == <<-1>>
Invalid == <<-2>>
IntCap == 2147483647

\* "(nil)"
NilLine == <<40, 110, 105, 108, 41>>
\* "OK"
OkLine == <<79, 75>>
\* "Error: "
ErrorPrefix == <<69, 114, 114, 111, 114, 58, 32>>
\* "Key cannot be empty"
EmptyKeyMsg == <<75, 101, 121, 32, 99, 97, 110, 110, 111, 116, 32, 98, 101, 32, 101, 109, 112, 116, 121>>

Min(a, b) == IF a < b THEN a ELSE b
Max(S) == CHOOSE x \in S : \A y \in S : y <= x

(***************************************************************************)
(* str.encode('utf-8') for strings without surrogate code points.          *)
(***************************************************************************)
EncodeChar(c) ==
    IF c < 128 THEN <<c>>
    ELSE IF c < 2048 THEN <<192 + (c \div 64), 128 + (c % 64)>>
    ELSE IF c < 65536 THEN
        <<224 + (c \div 4096), 128 + ((c \div 64) % 64), 128 + (c % 64)>>
    ELSE <<240 + (c \div 262144), 128 + ((c \div 4096) % 64),
           128 + ((c \div 64) % 64), 128 + (c % 64)>>

\* The concatenation of the characters' encodings, computed by halving so
\* that the evaluation depth is logarithmic in the length of the string.
RECURSIVE encode(_)
encode(s) ==
    IF Len(s) = 0 THEN <<>>
    ELSE IF Len(s) = 1 THEN EncodeChar(s[1])
    ELSE LET h == Len(s) \div 2
         IN encode(SubSeq(s, 1, h)) \o encode(SubSeq(s, h + 1, Len(s)))

(***************************************************************************)
(* bytes.decode('utf-8'), strict: Invalid where Python raises              *)
(* UnicodeDecodeError (bad lead byte, missing or bad continuation byte,    *)
(* overlong form, surrogate, code point above U+10FFFF).                   *)
(***************************************************************************)
IsCont(b) == b >= 128 /\ b <= 191

\* Number of bytes of the character that starts with lead byte b (0: none).
CharLen(b) ==
    IF b < 128 THEN 1
    ELSE IF b >= 194 /\ b <= 223 THEN 2
    ELSE IF b >= 224 /\ b <= 239 THEN 3
    ELSE IF b >= 240 /\ b <= 244 THEN 4
    ELSE 0

\* The second byte of a character is further restricted by its lead byte.
SecondOk(b1, b2) ==
    IF b1 = 224 THEN b2 >= 160 /\ b2 <= 191
    ELSE IF b1 = 237 THEN b2 >= 128 /\ b2 <= 159
    ELSE IF b1 = 240 THEN b2 >= 144 /\ b2 <= 191
    ELSE IF b1 = 244 THEN b2 >= 128 /\ b2 <= 143
    ELSE IsCont(b2)

DecodeChar(bs) ==
    IF Len(bs) = 1 THEN bs[1]
    ELSE IF Len(bs) = 2 THEN (bs[1] - 192) * 64 + (bs[2] - 128)
    ELSE IF Len(bs) = 3 THEN
        (bs[1] - 224) * 4096 + (bs[2] - 128) * 64 + (bs[3] - 128)
    ELSE (bs[1] - 240) * 262144 + (bs[2] - 128) * 4096
         + (bs[3] - 128) * 64 + (bs[4] - 128)

RECURSIVE DecodeFrom(_, _, _)
DecodeFrom(bs, i, acc) ==
    IF i > Len(bs) THEN acc
    ELSE LET n == CharLen(bs[i])
         IN IF n = 0 \/ i + n - 1 > Len(bs) THEN Invalid
            ELSE IF n >= 2 /\ ~SecondOk(bs[i], bs[i + 1]) THEN Invalid
            ELSE IF n >= 3 /\ ~IsCont(bs[i + 2]) THEN Invalid
            ELSE IF n = 4 /\ ~IsCont(bs[i + 3]) THEN Invalid
            ELSE DecodeFrom(bs, i + n,
                            Append(acc, DecodeChar(SubSeq(bs, i, i + n - 1))))

decode(bs) == DecodeFrom(bs, 1, <<>>)

(***************************************************************************)
(* int.to_bytes(4, 'big') and int.from_bytes(b, 'big') of four bytes.      *)
(* Python integers are unbounded; a decoded length of 2^31 or more is      *)
(* represented by IntCap, which like it exceeds both sanity limits.        *)
(***************************************************************************)
to_bytes(n) ==
    <<(n \div 16777216) % 256, (n \div 65536) % 256, (n \div 256) % 256, n % 256>>

from_bytes(b) ==
    IF b[1] >= 128 THEN IntCap
    ELSE b[1] * 16777216 + b[2] * 65536 + b[3] * 256 + b[4]

(***************************************************************************)
(* file_handle.read(n) at position pos of a file holding bytes f: the      *)
(* bytes available, at most n, none at or past the end of the file.        *)
(***************************************************************************)
Read(f, pos, n) ==
    IF pos >= Len(f) THEN <<>> ELSE SubSeq(f, pos + 1, Min(pos + n, Len(f)))

\* The record set() writes: [key_len][val_len][key bytes][value bytes].
Record(key, value) ==
    LET key_bytes == encode(key)
        value_bytes == encode(value)
    IN to_bytes(Len(key_bytes)) \o to_bytes(Len(value_bytes))
       \o key_bytes \o value_bytes

RecLen(key, value) == Len(Record(key, value))

(***************************************************************************)
(* The index dict.                                                         *)
(***************************************************************************)
EmptyIndex == <<>>

IndexEntry(offset, value_length) ==
    [offset |-> offset, value_length |-> value_length]

\* Variant: an existing entry is kept (first write wins).
PutKeepFirst(idx, key, entry) ==
    [x \in (DOMAIN idx) \cup {key} |-> IF x \in DOMAIN idx THEN idx[x] ELSE entry]

\* Variant: the index is replaced by one that holds the new entry only.
PutAlone(idx, key, entry) == [x \in {key} |-> entry]

\* self.index[key] = entry
Put(idx, key, entry) ==
    [x \in (DOMAIN idx) \cup {key} |-> IF x = key THEN entry ELSE idx[x]]

(***************************************************************************)
(* _rebuild_index: the replay loop.  offset is file_handle.tell() at the   *)
(* top of an iteration, idx the index built so far.  Every break leaves    *)
(* the loop with the entries collected so far.  Seeking past the end of    *)
(* a regular file succeeds, so the seek over the value never breaks.       *)
(***************************************************************************)
\* Variant: a record that fails a sanity check makes the replay give up the
\* entries collected so far.
RECURSIVE ReplayDiscard(_, _, _)
ReplayDiscard(f, offset, idx) ==
    LET key_len_bytes == Read(f, offset, 4)
        key_len == from_bytes(key_len_bytes)
        val_len_bytes == Read(f, offset + 4, 4)
        val_len == from_bytes(val_len_bytes)
        key_bytes == Read(f, offset + 8, key_len)
        key == decode(key_bytes)
    IN IF Len(key_len_bytes) = 0 THEN idx
       ELSE IF Len(key_len_bytes) < 4 THEN idx
       ELSE IF key_len > MaxKeyLen THEN EmptyIndex
       ELSE IF Len(val_len_bytes) < 4 THEN idx
       ELSE IF val_len > MaxValLen THEN EmptyIndex
       ELSE IF Len(key_bytes) < key_len THEN idx
       ELSE IF key = Invalid THEN EmptyIndex
       ELSE ReplayDiscard(f, offset + 8 + key_len + val_len,
                          Put(idx, key, IndexEntry(offset, val_len)))

RECURSIVE Replay(_, _, _)
Replay(f, offset, idx) ==
    LET key_len_bytes == Read(f, offset, 4)
        key_len == from_bytes(key_len_bytes)
        val_len_bytes == Read(f, offset + 4, 4)
        val_len == from_bytes(val_len_bytes)
        key_bytes == Read(f, offset + 8, key_len)
        key == decode(key_bytes)
    IN IF Len(key_len_bytes) = 0 THEN idx
       ELSE IF Len(key_len_bytes) < 4 THEN idx
       ELSE IF key_len > MaxKeyLen THEN idx
       ELSE IF Len(val_len_bytes) < 4 THEN idx
       ELSE IF val_len > MaxValLen THEN idx
       ELSE IF Len(key_bytes) < key_len THEN idx
       ELSE IF key = Invalid THEN idx
       ELSE Replay(f, offset + 8 + key_len + val_len,
                   Put(idx, key, IndexEntry(offset, val_len)))

\* The replay loop when the environment makes one read of the file raise
\* OSError: raises = 1 is the read at the top of this iteration, and every
\* iteration makes three reads (key length, value length, key; the seek over
\* the value is not a read).  The except clause re-raises and leaves
\* self.index as the loop built it.  Result: the index, and whether the
\* loop got as far as the read that raises.
RECURSIVE ReplayRaising(_, _, _, _)
ReplayRaising(f, offset, idx, raises) ==
    LET key_len_bytes == Read(f, offset, 4)
        key_len == from_bytes(key_len_bytes)
        val_len_bytes == Read(f, offset + 4, 4)
        val_len == from_bytes(val_len_bytes)
        key_bytes == Read(f, offset + 8, key_len)
        key == decode(key_bytes)
        left == [index |-> idx, raised |-> FALSE]
        raised == [index |-> idx, raised |-> TRUE]
    IN IF raises = 1 THEN raised
       ELSE IF Len(key_len_bytes) = 0 THEN left
       ELSE IF Len(key_len_bytes) < 4 THEN left
       ELSE IF key_len > MaxKeyLen THEN left
       ELSE IF raises = 2 THEN raised
       ELSE IF Len(val_len_bytes) < 4 THEN left
       ELSE IF val_len > MaxValLen THEN left
       ELSE IF raises = 3 THEN raised
       ELSE IF Len(key_bytes) < key_len THEN left
       ELSE IF key = Invalid THEN left
       ELSE ReplayRaising(f, offset + 8 + key_len + val_len,
                          Put(idx, key, IndexEntry(offset, val_len)), raises - 3)

\* Variant: the index is not cleared before the replay.
rebuild_indexNoClear(idx, ex, f) == IF ex THEN Replay(f, 0, idx) ELSE idx

\* _rebuild_index() on a store whose index is idx: self.index.clear(), then
\* the replay if the file exists.
rebuild_index(idx, ex, f) ==
    LET cleared == EmptyIndex
    IN IF ex THEN Replay(f, 0, cleared) ELSE cleared

\* The index a fresh store has after __init__: {} and, if the file exists,
\* _rebuild_index().
RebuildIndex(ex, f) == IF ex THEN rebuild_index(EmptyIndex, ex, f) ELSE EmptyIndex

(***************************************************************************)
(* Program start, __main__: SimpleKVStore() and then run().  The           *)
(* environment decides whether opening the existing file (fault = "open")  *)
(* or a read of the replay (fault = "read") raises an OSError;             *)
(* _rebuild_index prints and re-raises it, __init__ lets it through and    *)
(* __main__ prints "Fatal error" and calls sys.exit(1).  The file is       *)
(* opened only if it exists.  The result: whether a store is ready, its    *)
(* index, and the exit status of the process if it has exited.             *)
(***************************************************************************)
\* Variant: the error is caught and the store starts with an empty index.
StartupSwallow(ex, f, fault) ==
    IF ~ex THEN [up |-> TRUE, index |-> EmptyIndex, exit |-> None]
    ELSE IF fault # "none" THEN [up |-> TRUE, index |-> EmptyIndex, exit |-> None]
    ELSE [up |-> TRUE, index |-> rebuild_index(EmptyIndex, ex, f), exit |-> None]

Startup(ex, f, fault) ==
    IF ~ex THEN [up |-> TRUE, index |-> EmptyIndex, exit |-> None]
    ELSE IF fault # "none" THEN [up |-> FALSE, index |-> EmptyIndex, exit |-> <<1>>]
    ELSE [up |-> TRUE, index |-> rebuild_index(EmptyIndex, ex, f), exit |-> None]

(***************************************************************************)
(* get(key) for a non-empty key on index idx and file (ex, f): the value   *)
(* returned and the path taken: "miss" (no index entry), "hit", or         *)
(* "readerror" (an exception was caught; get prints to stderr and returns  *)
(* None).                                                                  *)
(***************************************************************************)
\* Variant: a key without an index entry is looked up with a default entry
\* (offset 0, value_length 0) instead of returning None.
GetOnDefaultEntry(idx, ex, f, key) ==
    LET entry == IF key \in DOMAIN idx THEN idx[key] ELSE IndexEntry(0, 0)
        key_len_bytes == Read(f, entry.offset, 4)
        key_len == from_bytes(key_len_bytes)
        val_len_bytes == Read(f, entry.offset + 4, 4)
        value_bytes == Read(f, entry.offset + 8 + key_len, entry.value_length)
        value == decode(value_bytes)
        failed == [ret |-> None, path |-> "readerror"]
    IN IF ~ex THEN failed
       ELSE IF Len(key_len_bytes) < 4 THEN failed
       ELSE IF Len(val_len_bytes) < 4 THEN failed
       ELSE IF Len(value_bytes) < entry.value_length THEN failed
       ELSE IF value = Invalid THEN failed
       ELSE [ret |-> value, path |-> "hit"]

GetOn(idx, ex, f, key) ==
    IF key \notin DOMAIN idx THEN [ret |-> None, path |-> "miss"]
    ELSE LET entry == idx[key]
             key_len_bytes == Read(f, entry.offset, 4)
             key_len == from_bytes(key_len_bytes)
             val_len_bytes == Read(f, entry.offset + 4, 4)
             value_bytes == Read(f, entry.offset + 8 + key_len, entry.value_length)
             value == decode(value_bytes)
             failed == [ret |-> None, path |-> "readerror"]
         IN IF ~ex THEN failed
            ELSE IF Len(key_len_bytes) < 4 THEN failed
            ELSE IF Len(val_len_bytes) < 4 THEN failed
            ELSE IF Len(value_bytes) < entry.value_length THEN failed
            ELSE IF value = Invalid THEN failed
            ELSE [ret |-> value, path |-> "hit"]

\* self.get(key) of the running process.
get(key) == GetOn(index, exists, file, key)

(***************************************************************************)
(* set(key, value).  The environment decides where an I/O error strikes:   *)
(*   fail = "none"   no error;                                             *)
(*   fail = "open"   open(..., 'ab') raises: nothing is created;           *)
(*   fail = "write"  a write or the flush raises after n bytes of the      *)
(*                   record reached the file (n matters in this case       *)
(*                   only);                                                *)
(*   fail = "fsync"  os.fsync raises: all bytes are in the file.           *)
(* The result is the file, the index and the outcome the caller sees.      *)
(***************************************************************************)
\* Variant: the index entry records the value's length in characters.
SetOutcomeCharLen(idx, ex, f, key, value, fail, n) ==
    LET offset == Len(f)
        unchanged == [exists |-> ex, file |-> f, index |-> idx]
    IN IF key = <<>> THEN unchanged @@ [status |-> "ValueError"]
       ELSE IF fail = "open" THEN unchanged @@ [status |-> "IOError"]
       ELSE IF fail = "write" THEN
           [exists |-> TRUE, file |-> f \o SubSeq(Record(key, value), 1, n),
            index |-> idx, status |-> "IOError"]
       ELSE IF fail = "fsync" THEN
           [exists |-> TRUE, file |-> f \o Record(key, value),
            index |-> idx, status |-> "IOError"]
       ELSE [exists |-> TRUE, file |-> f \o Record(key, value),
             index |-> Put(idx, key, IndexEntry(offset, Len(value))),
             status |-> "ok"]

\* Variant: the index is updated before os.fsync is called.
SetOutcomeIndexBeforeSync(idx, ex, f, key, value, fail, n) ==
    LET value_bytes == encode(value)
        offset == Len(f)
        unchanged == [exists |-> ex, file |-> f, index |-> idx]
    IN IF key = <<>> THEN unchanged @@ [status |-> "ValueError"]
       ELSE IF fail = "open" THEN unchanged @@ [status |-> "IOError"]
       ELSE IF fail = "write" THEN
           [exists |-> TRUE, file |-> f \o SubSeq(Record(key, value), 1, n),
            index |-> idx, status |-> "IOError"]
       ELSE IF fail = "fsync" THEN
           [exists |-> TRUE, file |-> f \o Record(key, value),
            index |-> Put(idx, key, IndexEntry(offset, Len(value_bytes))),
            status |-> "IOError"]
       ELSE [exists |-> TRUE, file |-> f \o Record(key, value),
             index |-> Put(idx, key, IndexEntry(offset, Len(value_bytes))),
             status |-> "ok"]

\* Variant: the key is validated after the file was opened for appending.
SetOutcomeValidateLate(idx, ex, f, key, value, fail, n) ==
    LET value_bytes == encode(value)
        offset == Len(f)
        unchanged == [exists |-> ex, file |-> f, index |-> idx]
    IN IF fail = "open" THEN unchanged @@ [status |-> "IOError"]
       ELSE IF key = <<>> THEN
           [exists |-> TRUE, file |-> f, index |-> idx, status |-> "ValueError"]
       ELSE IF fail = "write" THEN
           [exists |-> TRUE, file |-> f \o SubSeq(Record(key, value), 1, n),
            index |-> idx, status |-> "IOError"]
       ELSE IF fail = "fsync" THEN
           [exists |-> TRUE, file |-> f \o Record(key, value),
            index |-> idx, status |-> "IOError"]
       ELSE [exists |-> TRUE, file |-> f \o Record(key, value),
             index |-> Put(idx, key, IndexEntry(offset, Len(value_bytes))),
             status |-> "ok"]

\* Variant: the file is opened in mode 'wb', which truncates it.
SetOutcomeTruncate(idx, ex, f, key, value, fail, n) ==
    LET value_bytes == encode(value)
        unchanged == [exists |-> ex, file |-> f, index |-> idx]
    IN IF key = <<>> THEN unchanged @@ [status |-> "ValueError"]
       ELSE IF fail = "open" THEN unchanged @@ [status |-> "IOError"]
       ELSE IF fail = "write" THEN
           [exists |-> TRUE, file |-> SubSeq(Record(key, value), 1, n),
            index |-> idx, status |-> "IOError"]
       ELSE IF fail = "fsync" THEN
           [exists |-> TRUE, file |-> Record(key, value),
            index |-> idx, status |-> "IOError"]
       ELSE [exists |-> TRUE, file |-> Record(key, value),
             index |-> Put(idx, key, IndexEntry(0, Len(value_bytes))),
             status |-> "ok"]

SetOutcome(idx, ex, f, key, value, fail, n) ==
    LET value_bytes == encode(value)
        offset == Len(f)
        unchanged == [exists |-> ex, file |-> f, index |-> idx]
    IN IF key = <<>> THEN unchanged @@ [status |-> "ValueError"]
       ELSE IF fail = "open" THEN unchanged @@ [status |-> "IOError"]
       ELSE IF fail = "write" THEN
           [exists |-> TRUE, file |-> f \o SubSeq(Record(key, value), 1, n),
            index |-> idx, status |-> "IOError"]
       ELSE IF fail = "fsync" THEN
           [exists |-> TRUE, file |-> f \o Record(key, value),
            index |-> idx, status |-> "IOError"]
       ELSE [exists |-> TRUE, file |-> f \o Record(key, value),
             index |-> Put(idx, key, IndexEntry(offset, Len(value_bytes))),
             status |-> "ok"]

(***************************************************************************)
(* Inputs.  Keys and values mix one-byte and two-byte characters, so that  *)
(* byte lengths differ from character counts; the empty value is a value,  *)
(* the empty key is the invalid argument.                                  *)
(***************************************************************************)
KeyA == <<97>>           \* "a"
KeyE == <<233>>          \* "e" with acute accent, two bytes in UTF-8
Keys == {KeyA, KeyE}
Values == {<<>>, <<233>>}

\* A key of MaxKeyLen + 1 one-byte characters.
BigKey == [i \in 1..(MaxKeyLen + 1) |-> 97]
BigKeys == {KeyA, BigKey}
BigValues == {<<120>>, <<121>>}

\* The history variables name a key by a label.
KeyNames == {"empty", "a", "e", "big", "b", "c"}

Key(name) ==
    CASE name = "empty" -> <<>>
      [] name = "a" -> KeyA
      [] name = "e" -> KeyE
      [] name = "big" -> BigKey
      [] name = "b" -> <<98>>
      [] name = "c" -> <<99>>

NameOf(key) == CHOOSE name \in KeyNames : Key(name) = key

(***************************************************************************)
(* The record of the last operation; key is the label of its key, ret the  *)
(* value get returned or the exit status of a process that failed to       *)
(* start, out the line printed on standard output.                         *)
(***************************************************************************)
NoPre == <<>>

\* No call of set() has been made by the running process.
NoCall ==
    [pc |-> "idle", key |-> "empty", val |-> <<>>, offset |-> 0,
     buffer |-> <<>>, synced |-> FALSE, opens |-> 0, handles |-> 0]

Op(op, key, val, status, ret, out, pre) ==
    [op |-> op, key |-> NameOf(key), val |-> val, status |-> status,
     ret |-> ret, out |-> out, pre |-> pre]

\* self.data_file of the store __main__ makes: "data.db"
data_file == <<100, 97, 116, 97, 46, 100, 98>>

\* str(e) of the OSError the environment raises in set():
\*   open:  "[Errno 13] Permission denied: '<path>'"
\*   write: "[Errno 28] No space left on device"
\*   fsync: "[Errno 5] Input/output error"
OSErrorText(fail) ==
    IF fail = "open"
    THEN <<91, 69, 114, 114, 110, 111, 32, 49, 51, 93, 32, 80, 101, 114, 109,
           105, 115, 115, 105, 111, 110, 32, 100, 101, 110, 105, 101, 100, 58,
           32, 39>> \o data_file \o <<39>>
    ELSE IF fail = "write"
    THEN <<91, 69, 114, 114, 110, 111, 32, 50, 56, 93, 32, 78, 111, 32, 115,
           112, 97, 99, 101, 32, 108, 101, 102, 116, 32, 111, 110, 32, 100,
           101, 118, 105, 99, 101>>
    ELSE <<91, 69, 114, 114, 110, 111, 32, 53, 93, 32, 73, 110, 112, 117, 116,
           47, 111, 117, 116, 112, 117, 116, 32, 101, 114, 114, 111, 114>>

\* The message of the IOError set() raises for an OSError whose text is e:
\* "I failed to write to <data_file>: <e>"
WriteFailMsg(e) ==
    <<73, 32, 102, 97, 105, 108, 101, 100, 32, 116, 111, 32, 119, 114, 105,
      116, 101, 32, 116, 111, 32>> \o data_file \o <<58, 32>> \o e

\* The line the SET branch of run() prints for an outcome of set(); fail is
\* the statement that raised when the outcome is an IOError.
SetLine(status, fail) ==
    IF status = "ok" THEN OkLine
    ELSE IF status = "ValueError" THEN ErrorPrefix \o EmptyKeyMsg
    ELSE ErrorPrefix \o WriteFailMsg(OSErrorText(fail))

\* The line the GET branch of run() prints for a value returned by get().
GetLine(ret) == IF ret = None THEN NilLine ELSE ret

(***************************************************************************)
(* History of the file: one piece per append attempt that left bytes, with *)
(* the label of the key and the value of the record it was writing.        *)
(*   kind "rec":  all bytes of the record were written;                    *)
(*   kind "frag": a proper non-empty prefix of them was.                   *)
(***************************************************************************)
Piece(kind, key, val, off, len) ==
    [kind |-> kind, key |-> NameOf(key), val |-> val, off |-> off, len |-> len]

\* pieces after n bytes of a record of reclen bytes were appended.
Written(key, val, n, reclen) ==
    IF n = 0 THEN pieces
    ELSE Append(pieces,
                Piece(IF n = reclen THEN "rec" ELSE "frag", key, val, Len(file), n))

TornCount == Cardinality({i \in 1..Len(pieces) : pieces[i].kind = "frag"})

\* An append attempt writing n of the reclen bytes of a record stays within
\* the bounds.
Room(n, reclen, maxAppends) ==
    \/ n = 0
    \/ /\ Len(pieces) < maxAppends
       /\ n < reclen => TornCount < MaxTorn

(***************************************************************************)
(* Actions.                                                                *)
(***************************************************************************)
Init ==
    /\ exists = FALSE
    /\ file = <<>>
    /\ up = TRUE
    /\ index = EmptyIndex
    /\ last = Op("init", <<>>, <<>>, "ok", None, <<>>, NoPre)
    /\ pieces = <<>>
    /\ clean = TRUE
    /\ session = {}
    /\ scen = 0
    /\ call = NoCall

\* set(key, value) runs to its end (normally or by raising), and the SET
\* branch of run() prints the outcome.
Set(key, value, fail, n) ==
    /\ up
    /\ UNCHANGED <<up, call>>
    /\ \E r \in {SetOutcome(index, exists, file, key, value, fail, n)} :
          /\ exists' = r.exists
          /\ file' = r.file
          /\ index' = r.index
          /\ last' = Op("set", key, value, r.status, None, SetLine(r.status, fail), NoPre)
          /\ pieces' = Written(key, value, Len(r.file) - Len(file),
                               IF fail = "write" THEN RecLen(key, value)
                               ELSE Len(r.file) - Len(file))
          /\ clean' = (clean /\ (r.status = "ok" \/ r.file = file))
          /\ session' = IF r.status = "ok"
                        THEN session \cup {Len(pieces) + 1}
                        ELSE session

\* get(key), and the GET branch of run() prints the outcome.
Get(key) ==
    /\ up
    /\ last' = IF key = <<>>
               THEN Op("get", key, <<>>, "ValueError", None, ErrorPrefix \o EmptyKeyMsg, NoPre)
               ELSE LET r == get(key)
                    IN Op("get", key, <<>>, r.path, r.ret, GetLine(r.ret), NoPre)
    /\ UNCHANGED <<exists, file, up, index, pieces, clean, session, call>>

\* _rebuild_index() called on the running store.  The status tells whether
\* the index before the call held a key that the index after it does not.
Rebuild ==
    /\ up
    /\ \E r \in {rebuild_index(index, exists, file)} :
          /\ index' = r
          /\ last' = Op("rebuild", <<>>, <<>>,
                        IF DOMAIN index \subseteq DOMAIN r THEN "ok" ELSE "dropped",
                        None, <<>>, NoPre)
    /\ session' = {}
    /\ UNCHANGED <<exists, file, up, pieces, clean, scen, call>>

\* The process dies between two operations.
Kill ==
    /\ up
    /\ up' = FALSE
    /\ index' = EmptyIndex
    /\ last' = IF last.op = "set" /\ last.status = "ok"
               THEN Op("kill", <<>>, <<>>, "after_set_ok", None, <<>>, NoPre)
               ELSE Op("kill", <<>>, <<>>, "other", None, <<>>, NoPre)
    /\ session' = {}
    /\ UNCHANGED <<exists, file, pieces, clean, scen, call>>

\* The process dies inside set(key, value), before it returns: before the
\* file is opened (opened = FALSE), or after n bytes of the record reached
\* the file.  pre records what get returned for each key before the call.
CrashInSet(key, value, opened, n, keys) ==
    /\ up
    /\ key # <<>>
    /\ ~opened => n = 0
    /\ up' = FALSE
    /\ index' = EmptyIndex
    /\ exists' = (exists \/ opened)
    /\ file' = file \o SubSeq(Record(key, value), 1, n)
    /\ pieces' = Written(key, value, n, RecLen(key, value))
    /\ clean' = (clean /\ n = 0)
    /\ session' = {}
    /\ UNCHANGED <<scen, call>>
    /\ last' = Op("crash", key, value, "in_set", None, <<>>,
                  [j \in {NameOf(k) : k \in keys} |-> get(Key(j)).ret])

\* A fresh process starts on the same file: __main__ constructs the store.
\* With fault = "none" the store becomes ready; otherwise opening or reading
\* the file fails.
Start(fault) ==
    /\ ~up
    /\ fault # "none" => exists
    /\ \E r \in {Startup(exists, file, fault)} :
          /\ up' = r.up
          /\ index' = r.index
          /\ last' = Op(IF fault = "none" THEN "restart" ELSE "startfault",
                        Key(last.key), last.val,
                        IF last.op = "crash" THEN "after_crash" ELSE last.status,
                        r.exit, <<>>, last.pre)
    /\ session' = {}
    /\ UNCHANGED <<exists, file, pieces, clean, scen, call>>

Restart == Start("none")

StartFault == \E fault \in {"open", "read"} : Start(fault)

SetOk ==
    /\ up
    /\ \E key \in Keys \cup {<<>>}, value \in Values :
          /\ key # <<>> => Len(pieces) < MaxAppends
          /\ Set(key, value, "none", 0)
    /\ UNCHANGED scen

SetFail ==
    /\ up
    /\ \E key \in Keys, value \in Values, fail \in {"open", "write", "fsync"} :
          \E reclen \in {RecLen(key, value)} :
             \E n \in 0..reclen :
                /\ fail = "open" => n = 0
                /\ fail = "fsync" => n = reclen
                /\ Room(n, reclen, MaxAppends)
                /\ Set(key, value, fail, n)
    /\ UNCHANGED scen

GetAny ==
    /\ \E key \in Keys \cup {<<>>} : Get(key)
    /\ UNCHANGED scen

Crash ==
    /\ up
    /\ \E key \in Keys, value \in Values, opened \in BOOLEAN :
          \E reclen \in {RecLen(key, value)} :
             \E n \in 0..reclen :
                /\ Room(n, reclen, MaxAppends)
                /\ CrashInSet(key, value, opened, n, Keys)

Next ==
    \/ SetOk
    \/ SetFail
    \/ GetAny
    \/ Rebuild
    \/ Kill
    \/ Crash
    \/ Restart
    \/ StartFault

Spec == Init /\ [][Next]_vars

(***************************************************************************)
(* The same store used with a key longer than the replay's key limit, and  *)
(* without crashes or I/O errors.                                          *)
(***************************************************************************)
SetBig ==
    /\ up
    /\ Len(pieces) < MaxBigAppends
    /\ \E key \in BigKeys, value \in BigValues : Set(key, value, "none", 0)
    /\ UNCHANGED scen

GetBig ==
    /\ \E key \in BigKeys : Get(key)
    /\ UNCHANGED scen

NextBig ==
    \/ SetBig
    \/ GetBig
    \/ Kill
    \/ Restart

SpecBig == Init /\ [][NextBig]_vars

(***************************************************************************)
(* set(key, value) statement by statement.  call.pc is the statement that  *)
(* was executed last:                                                      *)
(*   "opened"   open(..., 'ab') and tell();                                *)
(*   "keylen", "vallen", "key", "value"   the write of that field, which   *)
(*              puts its bytes into the buffer of the file object;         *)
(*   "flushed"  flush(): the buffer went to the file;                      *)
(*   "synced"   os.fsync(): the bytes of the file are on the disk;         *)
(*   "indexed"  the assignment to self.index[key].                         *)
(* call.offset is the offset tell() returned, call.buffer the bytes        *)
(* written and not yet flushed, call.synced whether os.fsync returned,     *)
(* call.opens how often the call has opened the file and call.handles how  *)
(* many file objects it holds open.                                        *)
(***************************************************************************)
\* Variant: the file is closed at the end of the try block, not in a finally
\* block, so that a call which ends in an except clause leaves it open.
EndCallNoFinally(c, how) ==
    [c EXCEPT !.pc = "idle", !.buffer = <<>>,
              !.handles = IF how = "return" /\ @ > 0 THEN @ - 1 ELSE @]

\* The end of a call, by return (how = "return") or through an except
\* clause (how = "except"): the finally block closes the file object if
\* there is one.
EndCall(c, how) ==
    [c EXCEPT !.pc = "idle", !.buffer = <<>>,
              !.handles = IF @ > 0 THEN @ - 1 ELSE @]

\* Variant: the index assignment comes before os.fsync.
SetStepIndexBeforeSync(c, idx, f) ==
    LET key_bytes == encode(Key(c.key))
        value_bytes == encode(c.val)
        same == [index |-> idx, file |-> f]
    IN CASE c.pc = "opened" ->
              same @@ [call |-> [c EXCEPT !.pc = "keylen",
                                          !.buffer = @ \o to_bytes(Len(key_bytes))]]
         [] c.pc = "keylen" ->
              same @@ [call |-> [c EXCEPT !.pc = "vallen",
                                          !.buffer = @ \o to_bytes(Len(value_bytes))]]
         [] c.pc = "vallen" ->
              same @@ [call |-> [c EXCEPT !.pc = "key", !.buffer = @ \o key_bytes]]
         [] c.pc = "key" ->
              same @@ [call |-> [c EXCEPT !.pc = "value", !.buffer = @ \o value_bytes]]
         [] c.pc = "value" ->
              [call |-> [c EXCEPT !.pc = "flushed", !.buffer = <<>>],
               index |-> idx, file |-> f \o c.buffer]
         [] c.pc = "flushed" ->
              [call |-> [c EXCEPT !.pc = "synced"],
               index |-> Put(idx, Key(c.key), IndexEntry(c.offset, Len(value_bytes))),
               file |-> f]
         [] c.pc = "synced" ->
              same @@ [call |-> [c EXCEPT !.pc = "indexed", !.synced = TRUE]]

\* The statement after call.pc, when it does not raise.
SetStep(c, idx, f) ==
    LET key_bytes == encode(Key(c.key))
        value_bytes == encode(c.val)
        same == [index |-> idx, file |-> f]
    IN CASE c.pc = "opened" ->
              same @@ [call |-> [c EXCEPT !.pc = "keylen",
                                          !.buffer = @ \o to_bytes(Len(key_bytes))]]
         [] c.pc = "keylen" ->
              same @@ [call |-> [c EXCEPT !.pc = "vallen",
                                          !.buffer = @ \o to_bytes(Len(value_bytes))]]
         [] c.pc = "vallen" ->
              same @@ [call |-> [c EXCEPT !.pc = "key", !.buffer = @ \o key_bytes]]
         [] c.pc = "key" ->
              same @@ [call |-> [c EXCEPT !.pc = "value", !.buffer = @ \o value_bytes]]
         [] c.pc = "value" ->
              [call |-> [c EXCEPT !.pc = "flushed", !.buffer = <<>>],
               index |-> idx, file |-> f \o c.buffer]
         [] c.pc = "flushed" ->
              same @@ [call |-> [c EXCEPT !.pc = "synced", !.synced = TRUE]]
         [] c.pc = "synced" ->
              [call |-> [c EXCEPT !.pc = "indexed"],
               index |-> Put(idx, Key(c.key), IndexEntry(c.offset, Len(value_bytes))),
               file |-> f]

\* The statements up to tell(): validation, encoding, open (which may raise:
\* opened = FALSE) and tell.
SetOpen(key, value, opened) ==
    /\ up /\ call.pc = "idle"
    /\ key # <<>> => Len(pieces) < MaxStepAppends
    /\ IF key = <<>> \/ ~opened
       THEN /\ last' = LET status == IF key = <<>> THEN "ValueError" ELSE "IOError"
                       IN Op("set", key, value, status, None,
                          SetLine(status, "open"), NoPre)
            /\ UNCHANGED <<exists, call>>
       ELSE /\ exists' = TRUE
            /\ call' = [pc |-> "opened", key |-> NameOf(key), val |-> value,
                        offset |-> Len(file), buffer |-> <<>>, synced |-> FALSE,
                        opens |-> 1, handles |-> 1]
            /\ UNCHANGED last
    /\ UNCHANGED <<file, up, index, pieces, clean, session, scen>>

\* One statement of the call in progress.
Advance ==
    /\ up
    /\ \E r \in {SetStep(call, index, file)} :
          /\ call' = r.call
          /\ index' = r.index
          /\ file' = r.file
          /\ pieces' = Written(Key(call.key), call.val,
                               Len(r.file) - Len(file), Len(r.file) - Len(file))
    /\ UNCHANGED <<exists, up, last, clean, session, scen>>

SetWrite == call.pc \in {"opened", "keylen", "vallen", "key"} /\ Advance

SetFlush == call.pc = "value" /\ Advance

SetFsync == call.pc = "flushed" /\ Advance

SetIndex == call.pc = "synced" /\ Advance

\* The finally block closes the file, set returns, and run() prints OK.
SetReturn ==
    /\ up /\ call.pc = "indexed"
    /\ call' = EndCall(call, "return")
    /\ last' = Op("set", Key(call.key), call.val, "ok", None, SetLine("ok", "none"), NoPre)
    /\ session' = session \cup {Len(pieces)}
    /\ UNCHANGED <<exists, file, up, index, pieces, clean, scen>>

\* A write, flush or os.fsync (at pc "flushed") raises.  The finally block closes the file,
\* which writes out bytes still in the buffer, n of them successfully; set
\* raises and run() prints the error.
SetRaise(n) ==
    /\ up
    /\ call.pc \in {"opened", "keylen", "vallen", "key", "value", "flushed"}
    /\ n \in 0..Len(call.buffer)
    /\ \E reclen \in {RecLen(Key(call.key), call.val)} :
          /\ n < reclen => (n = 0 \/ TornCount < MaxTorn)
          /\ pieces' = Written(Key(call.key), call.val, n, reclen)
    /\ file' = file \o SubSeq(call.buffer, 1, n)
    /\ call' = EndCall(call, "except")
    /\ last' = Op("set", Key(call.key), call.val, "IOError", None,
                  SetLine("IOError", IF call.pc = "flushed" THEN "fsync" ELSE "write"),
                  NoPre)
    /\ clean' = (clean /\ Len(file') = call.offset)
    /\ UNCHANGED <<exists, up, index, session, scen>>

\* The process dies inside the call; if it dies in flush(), n bytes of the
\* buffer have reached the file.
CrashStep(n) ==
    /\ up /\ call.pc # "idle"
    /\ n \in 0..Len(call.buffer)
    /\ n > 0 => call.pc = "value"
    /\ \E reclen \in {RecLen(Key(call.key), call.val)} :
          /\ n < reclen => (n = 0 \/ TornCount < MaxTorn)
          /\ pieces' = Written(Key(call.key), call.val, n, reclen)
    /\ file' = file \o SubSeq(call.buffer, 1, n)
    /\ up' = FALSE
    /\ index' = EmptyIndex
    /\ call' = NoCall
    /\ last' = Op("crash", Key(call.key), call.val, "in_set", None, <<>>, NoPre)
    /\ clean' = (clean /\ Len(file') = call.offset)
    /\ session' = {}
    /\ UNCHANGED <<exists, scen>>

SetBegin == \E key \in Keys \cup {<<>>}, value \in Values, opened \in BOOLEAN :
                SetOpen(key, value, opened)

SetAbort == \E n \in 0..Len(call.buffer) : SetRaise(n)

CrashAny == \E n \in 0..Len(call.buffer) : CrashStep(n)

GetIdle ==
    /\ call.pc = "idle"
    /\ \E key \in Keys : Get(key)
    /\ UNCHANGED scen

NextSteps ==
    \/ SetBegin
    \/ SetWrite
    \/ SetFlush
    \/ SetFsync
    \/ SetIndex
    \/ SetReturn
    \/ SetAbort
    \/ CrashAny
    \/ GetIdle
    \/ Restart

SpecSteps == Init /\ [][NextSteps]_vars

(***************************************************************************)
(* get(key) and _rebuild_index() in two steps each: up to the open of the  *)
(* file, and from there to the end of the call.  open may raise (opened =  *)
(* FALSE, and always when the file does not exist); a read of the replay   *)
(* may raise.                                                              *)
(***************************************************************************)
GetOpen(key, opened) ==
    /\ up /\ call.pc = "idle"
    /\ IF key = <<>> THEN
           /\ last' = Op("get", key, <<>>, "ValueError", None,
                         ErrorPrefix \o EmptyKeyMsg, NoPre)
           /\ UNCHANGED call
       ELSE IF key \notin DOMAIN index THEN
           /\ last' = Op("get", key, <<>>, "miss", None, GetLine(None), NoPre)
           /\ UNCHANGED call
       ELSE IF ~exists \/ ~opened THEN
           /\ last' = Op("get", key, <<>>, "readerror", None, GetLine(None), NoPre)
           /\ UNCHANGED call
       ELSE
           /\ call' = [pc |-> "get_opened", key |-> NameOf(key), val |-> <<>>,
                       offset |-> index[key].offset, buffer |-> <<>>,
                       synced |-> FALSE, opens |-> 1, handles |-> 1]
           /\ UNCHANGED last
    /\ UNCHANGED <<exists, file, up, index, pieces, clean, session, scen>>

\* The reads of get, its return or except clause, and its finally block.
GetFinish ==
    /\ up /\ call.pc = "get_opened"
    /\ \E r \in {get(Key(call.key))} :
          /\ last' = Op("get", Key(call.key), <<>>, r.path, r.ret, GetLine(r.ret), NoPre)
          /\ call' = EndCall(call, IF r.path = "hit" THEN "return" ELSE "except")
    /\ UNCHANGED <<exists, file, up, index, pieces, clean, session, scen>>

\* self.index.clear(), the check that the file exists, and open.
RebuildOpen(opened) ==
    /\ up /\ call.pc = "idle"
    /\ index' = EmptyIndex
    /\ session' = {}
    /\ IF ~exists THEN
           /\ last' = Op("rebuild", <<>>, <<>>, "ok", None, <<>>, NoPre)
           /\ UNCHANGED call
       ELSE IF ~opened THEN
           /\ last' = Op("rebuild", <<>>, <<>>, "IOError", None, <<>>, NoPre)
           /\ UNCHANGED call
       ELSE
           /\ call' = [pc |-> "rebuild_opened", key |-> "empty", val |-> <<>>,
                       offset |-> 0, buffer |-> <<>>, synced |-> FALSE,
                       opens |-> 1, handles |-> 1]
           /\ UNCHANGED last
    /\ UNCHANGED <<exists, file, up, pieces, clean, scen>>

\* The replay loop, left at the end of the file, by a break at a record
\* that fails a check, or by an OSError of read number raises (0: no read
\* raises), and the finally block.  The entries of the records replayed
\* before the read that raises stay in the index.
RebuildFinish(raises) ==
    /\ up /\ call.pc = "rebuild_opened"
    /\ \E r \in {IF raises = 0
                 THEN [index |-> Replay(file, 0, index), raised |-> FALSE]
                 ELSE ReplayRaising(file, 0, index, raises)} :
          /\ index' = r.index
          /\ last' = Op("rebuild", <<>>, <<>>,
                        IF r.raised THEN "IOError" ELSE "ok", None, <<>>, NoPre)
          /\ call' = EndCall(call, IF r.raised THEN "except" ELSE "return")
    /\ UNCHANGED <<exists, file, up, pieces, clean, session, scen>>

GetBegin == \E key \in Keys \cup {<<>>}, opened \in BOOLEAN : GetOpen(key, opened)

RebuildBegin == \E opened \in BOOLEAN : RebuildOpen(opened)

\* The loop makes at most three reads for every eight bytes of the file, and
\* up to three more at its end.
RebuildEnd == \E raises \in 0..(3 * (Len(file) \div 8) + 3) : RebuildFinish(raises)

NextHandles ==
    \/ SetBegin
    \/ SetWrite
    \/ SetFlush
    \/ SetFsync
    \/ SetIndex
    \/ SetReturn
    \/ SetAbort
    \/ GetBegin
    \/ GetFinish
    \/ RebuildBegin
    \/ RebuildEnd

SpecHandles == Init /\ [][NextHandles]_vars

(***************************************************************************)
(* run(): the command loop.  One step reads one line from standard input   *)
(* (with its newline; the empty string at end of input), parses and        *)
(* executes it and prints one line, or nothing.                            *)
(***************************************************************************)
\* The characters str.strip() and str.split() treat as whitespace.
IsSpace(c) ==
    \/ c \in 9..13 \/ c \in 28..32 \/ c \in {133, 160, 5760}
    \/ c \in 8192..8202 \/ c \in {8232, 8233, 8239, 8287, 12288}

\* str.strip()
strip(s) ==
    LET keep == {i \in 1..Len(s) : ~IsSpace(s[i])}
    IN IF keep = {} THEN <<>>
       ELSE SubSeq(s, CHOOSE i \in keep : \A j \in keep : i <= j, Max(keep))

\* The parts str.split(None, maxsplit) finds in s from position i on: words
\* separated by runs of whitespace; after maxsplit words the rest of the
\* string, without its leading whitespace, is the last part.
RECURSIVE SplitFrom(_, _, _)
SplitFrom(s, i, maxsplit) ==
    LET words == {j \in i..Len(s) : ~IsSpace(s[j])}
        a == CHOOSE j \in words : \A k \in words : j <= k
        gaps == {j \in a..Len(s) : IsSpace(s[j])}
        b == IF gaps = {} THEN Len(s) + 1
             ELSE CHOOSE j \in gaps : \A k \in gaps : j <= k
    IN IF words = {} THEN <<>>
       ELSE IF maxsplit = 0 THEN <<SubSeq(s, a, Len(s))>>
       ELSE <<SubSeq(s, a, b - 1)>> \o SplitFrom(s, b, maxsplit - 1)

\* Variant: line.split(), every word is a part.
splitNoLimit(s, maxsplit) == SplitFrom(s, 1, Len(s))

\* line.split(None, maxsplit)
split(s, maxsplit) == SplitFrom(s, 1, maxsplit)

\* str.upper() on the letters a-z; the command words read here are ASCII.
upper(s) == [i \in 1..Len(s) |-> IF s[i] \in 97..122 THEN s[i] - 32 ELSE s[i]]

\* "EXIT", "SET", "GET"
ExitWord == <<69, 88, 73, 84>>
SetWord == <<83, 69, 84>>
GetWord == <<71, 69, 84>>
\* "Error: SET requires key and value"
SetUsageLine == <<69, 114, 114, 111, 114, 58, 32, 83, 69, 84, 32, 114, 101, 113, 117, 105, 114, 101, 115, 32, 107, 101, 121, 32, 97, 110, 100, 32, 118, 97, 108, 117, 101>>
\* "Error: GET requires key"
GetUsageLine == <<69, 114, 114, 111, 114, 58, 32, 71, 69, 84, 32, 114, 101, 113, 117, 105, 114, 101, 115, 32, 107, 101, 121>>
\* "Error: Unknown command '<command>'"
UnknownLine(command) ==
    <<69, 114, 114, 111, 114, 58, 32, 85, 110, 107, 110, 111, 119, 110, 32, 99, 111, 109, 109, 97, 110, 100, 32, 39>>
        \o command \o <<39>>

\* The lines of the command scenario, and the other lines fed to run().
\* "SET a 1", "SET b hello world", "GET a", "GET b", "GET c", "SET a 2", "GET a"
Scenario ==
    << <<83, 69, 84, 32, 97, 32, 49, 10>>,
       <<83, 69, 84, 32, 98, 32, 104, 101, 108, 108, 111, 32, 119, 111, 114, 108, 100, 10>>,
       <<71, 69, 84, 32, 97, 10>>,
       <<71, 69, 84, 32, 98, 10>>,
       <<71, 69, 84, 32, 99, 10>>,
       <<83, 69, 84, 32, 97, 32, 50, 10>>,
       <<71, 69, 84, 32, 97, 10>> >>

\* "set a", "  get   b  ", "SET b  x   y  ", "FOO", "EXIT", an empty line, and
\* the end of input.
OtherLines ==
    { <<115, 101, 116, 32, 97, 10>>,
      <<32, 32, 103, 101, 116, 32, 32, 32, 98, 32, 32, 10>>,
      <<83, 69, 84, 32, 98, 32, 32, 120, 32, 32, 32, 121, 32, 32, 10>>,
      <<70, 79, 79, 10>>,
      <<69, 88, 73, 84, 10>>,
      <<10>>,
      <<>> }

Lines == {Scenario[i] : i \in DOMAIN Scenario} \cup OtherLines

\* run() prints an error line of its own; the store is not touched.
Say(out) ==
    /\ last' = Op("line", <<>>, <<>>, "error", None, out, NoPre)
    /\ UNCHANGED <<exists, file, up, index, pieces, clean, session, call>>

\* run() leaves its loop and the process ends normally.
Exit ==
    /\ up' = FALSE
    /\ index' = EmptyIndex
    /\ last' = Op("exit", <<>>, <<>>, "ok", None, <<>>, NoPre)
    /\ session' = {}
    /\ UNCHANGED <<exists, file, pieces, clean, call>>

RunLine(line) ==
    /\ up
    /\ scen' = IF scen >= 0 /\ scen < Len(Scenario) /\ line = Scenario[scen + 1]
               THEN scen + 1 ELSE -1
    /\ LET parts == split(strip(line), 2)
           command == IF parts = <<>> THEN <<>> ELSE upper(parts[1])
       IN IF line = <<>> THEN Exit
          ELSE IF parts = <<>> THEN
              UNCHANGED <<exists, file, up, index, last, pieces, clean, session, call>>
          ELSE IF command = ExitWord THEN Exit
          ELSE IF command = SetWord THEN
              IF Len(parts) < 3 THEN Say(SetUsageLine)
              ELSE /\ Len(pieces) < MaxAppends
                   /\ Set(parts[2], parts[3], "none", 0)
          ELSE IF command = GetWord THEN
              IF Len(parts) < 2 THEN Say(GetUsageLine)
              ELSE Get(parts[2])
          ELSE Say(UnknownLine(command))

RunAny == \E line \in Lines : RunLine(line)

NextRun ==
    \/ RunAny
    \/ Restart

SpecRun == Init /\ [][NextRun]_vars

(***************************************************************************)
(* Replay of a log file that holds records failing the replay's sanity     *)
(* checks.  The file is a sequence of records as set writes them, some     *)
(* with one field damaged:                                                 *)
(*   "keylen"  the key length field holds MaxKeyLen + 1;                   *)
(*   "vallen"  the value length field holds MaxValLen + 1;                 *)
(*   "utf8"    the first key byte is 255, which is no UTF-8.               *)
(* A store is started on the file; pieces records what the file was built  *)
(* from.                                                                   *)
(***************************************************************************)
Damaged(kind, key, value) ==
    LET r == Record(key, value)
    IN CASE kind = "rec" -> r
         [] kind = "keylen" -> to_bytes(MaxKeyLen + 1) \o SubSeq(r, 5, Len(r))
         [] kind = "vallen" ->
                SubSeq(r, 1, 4) \o to_bytes(MaxValLen + 1) \o SubSeq(r, 9, Len(r))
         [] kind = "utf8" -> SubSeq(r, 1, 8) \o <<255>> \o SubSeq(r, 10, Len(r))

LogEntries ==
    [kind : {"rec"}, key : Keys, val : Values]
        \cup [kind : {"keylen", "vallen", "utf8"}, key : Keys, val : {<<233>>}]

RECURSIVE LogOf(_)
LogOf(recs) ==
    IF recs = <<>> THEN <<>>
    ELSE Damaged(recs[1].kind, recs[1].key, recs[1].val) \o LogOf(Tail(recs))

RECURSIVE PiecesOf(_, _)
PiecesOf(recs, off) ==
    IF recs = <<>> THEN <<>>
    ELSE LET len == Len(Damaged(recs[1].kind, recs[1].key, recs[1].val))
         IN <<Piece(recs[1].kind, recs[1].key, recs[1].val, off, len)>>
                \o PiecesOf(Tail(recs), off + len)

InitReplay ==
    \E n \in 0..MaxLogRecs : \E recs \in [1..n -> LogEntries] :
        /\ exists = TRUE
        /\ file = LogOf(recs)
        /\ up = FALSE
        /\ index = EmptyIndex
        /\ last = Op("init", <<>>, <<>>, "ok", None, <<>>, NoPre)
        /\ pieces = PiecesOf(recs, 0)
        /\ clean = \A i \in 1..n : recs[i].kind = "rec"
        /\ session = {}
        /\ scen = 0
        /\ call = NoCall

NextReplay ==
    \/ Restart
    \/ Rebuild
    \/ GetAny
    \/ Kill

SpecReplay == InitReplay /\ [][NextReplay]_vars

(***************************************************************************)
(* What the history says about the complete records in the file.           *)
(***************************************************************************)
RecsOf(name) ==
    {i \in 1..Len(pieces) : pieces[i].kind = "rec" /\ pieces[i].key = name}

RecKeys == {pieces[i].key : i \in {j \in 1..Len(pieces) : pieces[j].kind = "rec"}}

\* The highest-offset complete record written for the key labelled name.
LastRec(name) == pieces[Max(RecsOf(name))]

\* The index entry that addresses that record.
EntryOfLastRec(name) ==
    IndexEntry(LastRec(name).off, Len(encode(LastRec(name).val)))

\* The index that addresses, for every key, its highest-offset complete record.
IndexOfRecs == [k \in {Key(name) : name \in RecKeys} |-> EntryOfLastRec(NameOf(k))]

(***************************************************************************)
(* C1  Round trip: whenever set(k, v) has just succeeded in a running      *)
(* store, for a non-empty key k and any value v (the empty one included),  *)
(* get(k) called next returns exactly v.                                   *)
(***************************************************************************)
C1_RoundTrip ==
    (up /\ last.op = "set" /\ last.status = "ok") =>
        get(Key(last.key)) = [ret |-> last.val, path |-> "hit"]

\* A two-byte value and the empty value have each just been written over
\* an earlier record of the same key and are read back.
C1_Witness ==
    /\ up /\ last.op = "set" /\ last.status = "ok"
    /\ last.key = "e" /\ last.val = <<>>
    /\ Len(pieces) = 2 /\ pieces[1].key = "e" /\ pieces[1].val = <<233>>
    /\ get(KeyE).ret = <<>>

(***************************************************************************)
(* C2  Last write wins within one process: after any sequence of           *)
(* successful sets since the index was built, get(k) returns, for every    *)
(* key k set in it, the value of the most recent of these sets, whatever   *)
(* sets to other keys came in between.                                     *)
(***************************************************************************)
C2_LastWriteWins ==
    up => \A i \in session :
             (\A j \in session : pieces[j].key = pieces[i].key => j <= i)
                 => get(Key(pieces[i].key)).ret = pieces[i].val

\* "a" was set, then the other key, then "a" again to a different value.
C2_Witness ==
    /\ up /\ Len(pieces) = 3
    /\ pieces[1].key = "a" /\ pieces[1].val = <<233>>
    /\ pieces[2].key = "e"
    /\ pieces[3].key = "a" /\ pieces[3].val = <<>>
    /\ session = {1, 2, 3}
    /\ get(KeyA).ret = <<>> /\ get(KeyE).ret = pieces[2].val

(***************************************************************************)
(* C3  Last write wins across restart: after successful sets only (no      *)
(* crash or error inside an append) and a restart, get(k) returns for      *)
(* every key k that was set the value of the most recent set of k.         *)
(***************************************************************************)
C3_LastWriteWinsAcrossRestart ==
    (up /\ clean /\ last.op = "restart") =>
        \A name \in RecKeys : get(Key(name)).ret = LastRec(name).val

(***************************************************************************)
(* C4  Durability: once set(k, v) returned success and the process was     *)
(* terminated right after, a fresh process on the same file gets v for k,  *)
(* also when an earlier process left an incomplete record in the file.     *)
(***************************************************************************)
C4_Durability ==
    (up /\ last.op = "restart" /\ last.status = "after_set_ok") =>
        get(Key(pieces[Len(pieces)].key)).ret = pieces[Len(pieces)].val

(***************************************************************************)
(* C5  Crash atomicity of set: after a crash inside set(k, v) and a        *)
(* restart, get(k) returns what it returned before the call or v, and      *)
(* get(j) returns for every other key j what it returned before the call.  *)
(***************************************************************************)
C5_CrashAtomicity ==
    (up /\ last.op = "restart" /\ last.status = "after_crash") =>
        /\ get(Key(last.key)).ret \in {last.pre[last.key], last.val}
        /\ \A j \in (DOMAIN last.pre) \ {last.key} : get(Key(j)).ret = last.pre[j]

(***************************************************************************)
(* C6  Torn tail tolerance: when the file is complete records followed by  *)
(* one truncated record, the index that Rebuild produces holds exactly     *)
(* the entries of the complete records, for every truncation point.        *)
(***************************************************************************)
TornTail ==
    /\ Len(pieces) >= 1
    /\ pieces[Len(pieces)].kind = "frag"
    /\ \A i \in 1..(Len(pieces) - 1) : pieces[i].kind = "rec"

C6_TornTailTolerance ==
    (up /\ last.op \in {"restart", "rebuild"} /\ TornTail) =>
        index = IndexOfRecs

(***************************************************************************)
(* C7  When the index holds an entry for k but the value cannot be read,   *)
(* the caller of get(k) sees something other than the not-found result,    *)
(* and the GET command prints something other than (nil).                  *)
(***************************************************************************)
C7_ReadErrorSurfaced ==
    (last.op = "get" /\ last.status = "readerror") =>
        (last.ret # None /\ last.out # NilLine)

(***************************************************************************)
(* C8  Index invariant: between operations, every index entry addresses    *)
(* the highest-offset complete record of its key in the file, with that    *)
(* record's value length; no entry points at an incomplete record.         *)
(***************************************************************************)
C8_IndexInvariant ==
    up => \A k \in DOMAIN index :
             k \in DOMAIN IndexOfRecs /\ index[k] = IndexOfRecs[k]

(***************************************************************************)
(* C9  Log well-formedness: the file is complete records followed by the   *)
(* end of the file or by one incomplete record at the very end; no bytes   *)
(* are ever written after an incomplete record.                            *)
(***************************************************************************)
C9_LogWellFormed ==
    \A i \in 1..(Len(pieces) - 1) : pieces[i].kind = "rec"

(***************************************************************************)
(* C10  A set that fails with an I/O error (at open, at a write or the     *)
(* flush, or at fsync) leaves the index exactly as it was.                 *)
(***************************************************************************)
C10_FailedSetKeepsIndex ==
    [][(last'.op = "set" /\ last'.status = "IOError") => index' = index]_vars

\* fsync failed after the whole record of a key that has an index entry was
\* written: the entry still addresses the older record.
C10_Witness ==
    /\ up /\ last.op = "set" /\ last.status = "IOError"
    /\ Len(pieces) = 2
    /\ pieces[2].kind = "rec" /\ pieces[2].key = last.key
    /\ Key(last.key) \in DOMAIN index
    /\ index[Key(last.key)].offset = pieces[1].off

(***************************************************************************)
(* C11  A set that fails with an I/O error after some of the record's      *)
(* bytes reached the file leaves the log's logical content unchanged:      *)
(* replaying the file after the failed call yields the same index as       *)
(* replaying it before the call.                                           *)
(***************************************************************************)
C11_FailedSetKeepsLog ==
    [][(last'.op = "set" /\ last'.status = "IOError" /\ file' # file)
          => RebuildIndex(exists', file') = RebuildIndex(exists, file)]_vars

(***************************************************************************)
(* C12  Not-found: in a store whose file holds only records of successful  *)
(* sets (none at all included), get(k) for a non-empty key k that none of  *)
(* them targeted returns None by the no-entry path, without any error.     *)
(***************************************************************************)
C12_NotFound ==
    (up /\ clean) =>
        \A k \in Keys : NameOf(k) \notin RecKeys =>
            get(k) = [ret |-> None, path |-> "miss"]

\* Two sets to "a" succeeded, none to the other key, which was then looked up.
C12_Witness ==
    /\ up /\ clean /\ Len(pieces) = 2
    /\ \A i \in 1..2 : pieces[i].key = "a"
    /\ last.op = "get" /\ last.key = "e"
    /\ last.status = "miss" /\ last.ret = None /\ last.out = NilLine

(***************************************************************************)
(* C14  set and get called with the empty key fail with ValueError, and    *)
(* the failed call leaves the file, whether it exists, and the index as    *)
(* they were.                                                              *)
(***************************************************************************)
C14_EmptyKeyRejected ==
    [][(last'.op \in {"set", "get"} /\ last'.key = "empty")
          => /\ last'.status = "ValueError"
             /\ exists' = exists /\ file' = file /\ index' = index]_vars

\* set with the empty key was refused on a store that has no file yet.
C14_Witness ==
    /\ up /\ last.op = "set" /\ last.key = "empty"
    /\ last.status = "ValueError" /\ last.out = ErrorPrefix \o EmptyKeyMsg
    /\ ~exists /\ index = EmptyIndex

(***************************************************************************)
(* C19  Append-only: no operation removes or changes a byte of the file    *)
(* (the content before is a prefix of the content after, and an existing   *)
(* file stays); a successful set adds exactly its record at the end; get   *)
(* and Rebuild leave the file as it is.                                    *)
(***************************************************************************)
C19_AppendOnly ==
    [][/\ Len(file) <= Len(file') /\ SubSeq(file', 1, Len(file)) = file
       /\ exists => exists'
       /\ (last'.op = "set" /\ last'.status = "ok" /\ last' # last)
             => file' = file \o Record(Key(last'.key), last'.val)
       /\ last'.op \in {"get", "rebuild"}
             => (file' = file /\ exists' = exists)]_vars

\* A successful set has put its record right after the record that was
\* already in the file.
C19_Witness ==
    /\ up /\ last.op = "set" /\ last.status = "ok"
    /\ Len(pieces) = 2 /\ pieces[1].kind = "rec" /\ pieces[2].off = pieces[1].len
    /\ Len(file) = pieces[1].len + pieces[2].len
    /\ SubSeq(file, pieces[2].off + 1, Len(file)) = Record(Key(last.key), last.val)

(***************************************************************************)
(* C13  Rebuild idempotence: right after Rebuild, whatever the index held  *)
(* before it, running Rebuild again on the unmodified file yields the      *)
(* same index, and the index is the one Rebuild yields from an empty       *)
(* index: it depends on the file only.                                     *)
(***************************************************************************)
C13_RebuildIdempotent ==
    last.op = "rebuild" =>
        /\ rebuild_index(index, exists, file) = index
        /\ rebuild_index(EmptyIndex, exists, file) = index

\* Rebuild removed an entry that the index held for a key and kept another.
C13_Witness ==
    /\ up /\ last.op = "rebuild" /\ last.status = "dropped"
    /\ index # EmptyIndex
    /\ rebuild_index(index, exists, file) = index

\* The key or the value is longer than the replay accepts.
TooLong(key, value) ==
    Len(encode(key)) > MaxKeyLen \/ Len(encode(value)) > MaxValLen

(***************************************************************************)
(* C15  set rejects a key of more than 65536 encoded bytes and a value of  *)
(* more than 1048576 encoded bytes: such a call does not succeed and       *)
(* appends nothing to the file.                                            *)
(***************************************************************************)
C15_SetEnforcesLimits ==
    [][(last'.op = "set" /\ TooLong(Key(last'.key), last'.val))
          => (last'.status # "ok" /\ file' = file)]_vars

(***************************************************************************)
(* C16  Startup: when the file exists but cannot be opened or read, no     *)
(* store becomes ready: the process reports the error and exits with a     *)
(* non-zero status; it does not come up with an empty index.  When the     *)
(* file is missing, the store is ready with an empty index.                *)
(***************************************************************************)
C16_StartupFailureSurfaced ==
    /\ last.op = "startfault" =>
          (~up /\ last.ret # None /\ last.ret[1] # 0)
    /\ (last.op = "restart" /\ ~exists) =>
          (up /\ index = EmptyIndex /\ last.ret = None)

\* The start failed on a file that holds a complete record.
C16_Witness ==
    /\ last.op = "startfault" /\ ~up /\ last.ret = <<1>>
    /\ exists /\ Len(pieces) >= 1 /\ pieces[1].kind = "rec"

BadRecs == {i \in 1..Len(pieces) : pieces[i].kind \in {"keylen", "vallen", "utf8"}}

\* The records before the first one that fails a sanity check.
BeforeStop == {i \in 1..Len(pieces) : \A j \in BadRecs : i < j}

IndexBeforeStop ==
    [k \in {Key(pieces[i].key) : i \in BeforeStop} |->
        LET i == Max({j \in BeforeStop : Key(pieces[j].key) = k})
        IN IndexEntry(pieces[i].off, Len(encode(pieces[i].val)))]

(***************************************************************************)
(* C20  Replay stops at the first record whose key length exceeds 65536,   *)
(* whose value length exceeds 1048576 or whose key bytes are not valid     *)
(* UTF-8: the index holds exactly the entries of the records before it     *)
(* (the last one of each key), none for that record or any record after    *)
(* it, and the store is ready: Rebuild returned normally.                  *)
(***************************************************************************)
C20_ReplayStopsAtCorruptRecord ==
    (last.op \in {"restart", "rebuild"} /\ BadRecs # {}) =>
        (up /\ index = IndexBeforeStop)

\* A record of "a", then a record with invalid key bytes, then a record of
\* the other key: only the entry of "a" is there.
C20_Witness ==
    /\ up /\ last.op = "restart" /\ Len(pieces) = 3
    /\ pieces[1].kind = "rec" /\ pieces[1].key = "a"
    /\ pieces[2].kind = "utf8"
    /\ pieces[3].kind = "rec" /\ pieces[3].key = "e"
    /\ DOMAIN index = {KeyA} /\ index[KeyA].offset = 0

\* "OK", "OK", "1", "hello world", "(nil)", "OK", "2"
ScenarioOut ==
    << OkLine, OkLine, <<49>>,
       <<104, 101, 108, 108, 111, 32, 119, 111, 114, 108, 100>>,
       NilLine, OkLine, <<50>> >>

(***************************************************************************)
(* C17  Command scenario: on an empty store the lines SET a 1,             *)
(* SET b hello world, GET a, GET b, GET c, SET a 2, GET a print, line by   *)
(* line, OK, OK, 1, hello world, (nil), OK, 2.  In general a SET line      *)
(* with a key and a value prints OK, and a GET line prints the value of    *)
(* the key's most recent SET, spaces inside it included, or (nil) when     *)
(* the key was never set.                                                  *)
(***************************************************************************)
C17_CommandScenario ==
    /\ scen >= 1 => last.out = ScenarioOut[scen]
    /\ (up /\ last.op = "set") => last.out = OkLine
    /\ (up /\ last.op = "get") =>
          last.out = IF last.key \in RecKeys THEN LastRec(last.key).val ELSE NilLine

\* The seven lines of the scenario have been read; the last printed 2.
C17_Witness ==
    /\ up /\ scen = 7 /\ Len(pieces) = 3
    /\ last.op = "get" /\ last.key = "a" /\ last.out = <<50>>
    /\ pieces[2].val = ScenarioOut[4]

\* The index entry of the call's key addresses the record of the call.
Indexed ==
    /\ Key(call.key) \in DOMAIN index
    /\ index[Key(call.key)].offset = call.offset

\* The call has returned and run() has printed OK for it.
Reported == call.pc = "idle" /\ last.op = "set" /\ last.status = "ok"

(***************************************************************************)
(* C18  Ordering inside set: whenever the index entry of the key           *)
(* addresses the record of the current call of set, or the call has        *)
(* reported success, os.fsync has returned for the record and all its      *)
(* bytes are in the file at the offset of the entry: at no statement of    *)
(* set, and so at no point where the process may die, does the index or    *)
(* the result run ahead of the durable record.                             *)
(***************************************************************************)
C18_IndexAfterSync ==
    (up /\ call.key # "empty" /\ (Indexed \/ Reported)) =>
        /\ call.synced
        /\ Read(file, call.offset, RecLen(Key(call.key), call.val))
              = Record(Key(call.key), call.val)
        /\ Indexed

\* The index assignment has just been made for a second record of the key.
C18_Witness ==
    /\ up /\ call.pc = "indexed" /\ call.synced /\ call.offset > 0
    /\ Len(pieces) = 2 /\ pieces[1].key = call.key
    /\ Indexed

(***************************************************************************)
(* C21  Scoped file handles: a call of set, get or Rebuild opens the file  *)
(* at most once and holds at most one open file object, and when no call   *)
(* is in progress no file object is open, whichever way the last call      *)
(* ended: by return, at a record that stopped the replay, or through an    *)
(* except clause.                                                          *)
(***************************************************************************)
C21_ScopedHandles ==
    /\ call.opens <= 1
    /\ call.handles \in {0, 1}
    /\ call.pc = "idle" => call.handles = 0

\* A call of set that had opened the file ended with an I/O error after
\* part of its record had reached the file, and the file object is closed.
C21_Witness ==
    /\ up /\ call.pc = "idle" /\ call.opens = 1 /\ call.handles = 0
    /\ last.op = "set" /\ last.status = "IOError"
    /\ Len(pieces) >= 1 /\ pieces[Len(pieces)].kind = "frag"

(***************************************************************************)
(* C22  Frame of set and get: a successful set(k, v) leaves the index      *)
(* entry of every key other than k as it was and adds or removes no other  *)
(* key; get leaves the whole index as it was, whether it hits, misses,     *)
(* fails to read or rejects its key.                                       *)
(***************************************************************************)
C22_Frame ==
    [][/\ (last'.op = "set" /\ last'.status = "ok") =>
             /\ DOMAIN index' = DOMAIN index \cup {Key(last'.key)}
             /\ \A j \in DOMAIN index \ {Key(last'.key)} : index'[j] = index[j]
       /\ last'.op = "get" => index' = index]_vars

\* A set of the second key has just succeeded, and the entry of the first
\* key still addresses its record at the start of the file.
C22_Witness ==
    /\ up /\ last.op = "set" /\ last.status = "ok" /\ last.key = "e"
    /\ Len(pieces) = 2 /\ pieces[1].kind = "rec" /\ pieces[1].key = "a"
    /\ DOMAIN index = {KeyA, KeyE}
    /\ index[KeyA] = IndexEntry(0, Len(encode(pieces[1].val)))
    /\ index[KeyE].offset = pieces[2].off

====
